---- MODULE Spec2Model ----
(***************************************************************************)
(* Model of shuffled_louvain.py: Louvain community detection repeated on   *)
(* randomly relabelled copies of a graph, fanned out to worker processes   *)
(* through two multiprocessing queues and reduced to the best modularity.  *)
(*                                                                         *)
(* Python lists are modelled as sequences; a list index i of the source is *)
(* the sequence index i + 1 (operator At).  Modularity is kept as the      *)
(* exact integer 4*m*m*Q (m = number of edges), which orders and compares  *)
(* exactly as Q does for a fixed graph.                                    *)
(***************************************************************************)
EXTENDS Integers, Sequences, FiniteSets, TLC

\* ------------------------------------------------------------------ bounds
MaxIter == 3
MaxCpu == 3
\* the longest task channel a further call of shuffled_comdet in the same
\* interpreter is entered with
MaxLeft == 2
\* the number of calls of shuffled_comdet followed in one interpreter when
\* the calls are compared with each other
MaxCalls == 3
\* the longest task channel a call is entered with when the calls are
\* compared
MaxPairLeft == 1

\* Input graphs of the pipeline: node count and edge list.
PathGraph2 == [n |-> 2, es |-> << <<0, 1>> >>]
PathGraph3 == [n |-> 3, es |-> << <<0, 1>>, <<1, 2>> >>]
Graphs == {PathGraph2}

\* Input graphs of the relabelling step checked in isolation.
RelabelGraphs ==
    { PathGraph3,
      [n |-> 3, es |-> << <<2, 0>>, <<0, 0>> >>],
      [n |-> 4, es |-> << <<0, 1>>, <<1, 2>>, <<2, 0>>, <<2, 3>> >>],
      [n |-> 4, es |-> << <<0, 1>>, <<3, 2>>, <<0, 1>> >>] }

\* ------------------------------------------------------- python helpers
\* list[i] with the source's 0-based index
At(list, i) == list[i + 1]

\* range(n): empty when n <= 0
Range(n) == IF n > 0 THEN [k \in 1..n |-> k - 1] ELSE << >>

\* the lists random.shuffle can leave in range(n): all orderings of 0..n-1
Shuffles(n) ==
    { p \in [1..n -> 0..(n - 1)] : \A a, b \in 1..n : p[a] = p[b] => a = b }

\* the membership lists the detection engine can return on n vertices: the
\* engine numbers the k communities it finds 0..k-1
Memberships(n) ==
    { mb \in [1..n -> 0..(n - 1)] :
        \A c \in 0..(n - 1) :
           (\E k \in 1..n : mb[k] = c) =>
              \A d \in 0..c : \E k \in 1..n : mb[k] = d }

RECURSIVE SumOver(_, _)
SumOver(f, S) ==
    IF S = {} THEN 0
    ELSE LET x == CHOOSE y \in S : TRUE IN f[x] + SumOver(f, S \ {x})

\* Graph.modularity of an undirected, unweighted graph, times 4*m*m:
\* sum over communities c of 4*m*(edges inside c) - (total degree of c)^2
ModScaled(edges, memb) ==
    LET m      == Len(edges)
        comms  == { memb[k] : k \in DOMAIN memb }
        inside == [c \in comms |->
                     Cardinality({ j \in 1..m :
                        At(memb, edges[j][1]) = c /\ At(memb, edges[j][2]) = c })]
        degree == [c \in comms |->
                     Cardinality({ j \in 1..m : At(memb, edges[j][1]) = c })
                   + Cardinality({ j \in 1..m : At(memb, edges[j][2]) = c })]
        term   == [c \in comms |-> 4 * m * inside[c] - degree[c] * degree[c]]
    IN SumOver(term, comms)

\* ------------------------------------------------------------- messages
STOP == [kind |-> "STOP"]
Task(i) == [kind |-> "task", i |-> i]
Result(modaux, mship) == [kind |-> "res", mod |-> modaux, memb |-> mship]

\* multiprocessing.Queue: put() appends the item to a buffer of the calling
\* process and returns; a feeder thread of that process later writes the
\* buffered items, oldest first, into the pipe all processes share, and
\* get() reads the oldest item of the pipe. input_queue and output_queue
\* are the pipes, inBuf and outBuf[w] the buffers of the putting processes.
\* Queue.get: the item at the head of the pipe
QueueHead(q) == Head(q)
\* a buffer that hands the newest item to the feeder thread first
QueuePutFront(buf, x) == << x >> \o buf

\* Queue.put: the item joins the calling process's buffer at its tail
QueuePut(buf, x) == Append(buf, x)

\* the feeder thread writes the oldest buffered item to the pipe
QueueFeed(q, buf) == Append(q, Head(buf))

\* ---------------------------------------------------------- worker body
\* a relabelling that renames only the first end of every edge
get_new_edgelist_first(edlist, rif) ==
    [j \in 1..Len(edlist) |-> << At(rif, edlist[j][1]), edlist[j][2] >>]

\* lines 167-170
get_new_edgelist(edlist, rif) ==
    [j \in 1..Len(edlist) |->
        << At(rif, edlist[j][1]), At(rif, edlist[j][2]) >>]

\* a recovery that reads the shuffle the wrong way: node i gets the
\* community of the vertex j with rifrullo[j] = i
RecoverMembershipInverse(memb, rif) ==
    [k \in 1..Len(memb) |->
        At(memb, (CHOOSE j \in 1..Len(rif) : rif[j] = k - 1) - 1)]

\* line 151: mshiplistaux = [membaux[rifrullo[i]] for i in range(len(membaux))]
RecoverMembership(memb, rif) ==
    [k \in 1..Len(memb) |-> At(memb, At(rif, k - 1))]

\* ---------------------------------------------------------------- state
VARIABLES
    g, numiter, parallel, cpu_count,      \* inputs of shuffled_comdet
    pcMain, edgelist, nodelist, mod, loug, \* locals of shuffled_comdet
    mod_res, memship_res, numprocs, returned,
    input_queue, output_queue,            \* module-level queues (the pipes)
    pcGen, genArgs, genI,                 \* add2inqueue process
    inBuf,                                \* its buffer of input_queue
    pcW, wTok,                            \* comdet_worker processes
    outBuf,                               \* their buffers of output_queue
    pcRed, work, val,                     \* outqueue2res process
    left,                                 \* history: input_queue when the
                                          \* call was entered
    fed,                                  \* history: tokens put by add2inqueue
    emitted,                              \* history: results put by workers
    traced,                               \* ghost switch, fixed at Init:
                                          \* whether outTags records origins
    outTags,                              \* ghost: who put each item of
                                          \* output_queue, and for which token
    bufTags,                              \* ghost: the same for outBuf
    wOrd,                                 \* ghost: how many trial tokens were
                                          \* taken before the one a worker holds
    paired,                               \* ghost switch, fixed at Init:
                                          \* whether the calls are recorded to
                                          \* be compared with each other
    draws,                                \* history: the shuffle and the
                                          \* engine's answer of every trial of
                                          \* the call, in the order of the puts
    prev,                                 \* history: the last sequential call
                                          \* that returned: its inputs, its
                                          \* draws and what it returned
    calls,                                \* history: the calls entered so far
                                          \* (counted when paired)
    pcT, rifrullo, newedges, membaux, gauxmod, mshiplistaux
                                          \* one loop body of comdet_worker

mainVars == << pcMain, edgelist, nodelist, mod, loug, numprocs, returned >>
callVars == << g, numiter, parallel, cpu_count, traced, left, paired, prev,
              calls >>
inputVars == << callVars, draws >>
accVars == << mod_res, memship_res >>
genVars == << pcGen, genArgs, genI, inBuf >>
workerVars == << pcW, wTok, outBuf, bufTags, wOrd >>
redVars == << pcRed, work, val >>
bodyVars == << pcT, rifrullo, newedges, membaux, gauxmod, mshiplistaux >>
vars == << inputVars, mainVars, accVars, input_queue, output_queue, genVars,
           workerVars, redVars, fed, emitted, outTags, bodyVars >>

MaxProcs == IF MaxCpu > 1 THEN MaxCpu - 1 ELSE 1
Procs == 1..MaxProcs
Workers == 1..numprocs

NoVal == Result(0, << >>)

\* no sequential call has returned yet
NoPrev ==
    [set |-> FALSE, g |-> [n |-> 0, es |-> << >>], numiter |-> 0,
     canon |-> << >>, draws |-> << >>, mod |-> 0, memb |-> << >>]

\* line 50: shuffled_comdet is entered; no process of the call exists yet
IdleCall ==
    /\ pcMain = "begin"
    /\ edgelist = << >> /\ nodelist = << >>
    /\ mod = 0 /\ loug = << >>
    /\ mod_res = 0 /\ memship_res = << >>
    /\ numprocs = 0 /\ returned = << >>
    /\ pcGen = "unborn" /\ genArgs = [n |-> 0, nprocs |-> 0] /\ genI = 0
    /\ inBuf = << >>
    /\ pcW = [w \in Procs |-> "unborn"]
    /\ wTok = [w \in Procs |-> 0]
    /\ wOrd = [w \in Procs |-> 0]
    /\ outBuf = [w \in Procs |-> << >>]
    /\ bufTags = [w \in Procs |-> << >>]
    /\ pcRed = "unborn" /\ work = 0 /\ val = NoVal
    /\ fed = << >> /\ emitted = << >>

\* lines 46-47: the module has just been imported, both queues are empty,
\* and shuffled_comdet is entered for the first time
IdlePipeline ==
    /\ IdleCall
    /\ input_queue = << >> /\ output_queue = << >>
    /\ left = << >> /\ outTags = << >>

IdleBody ==
    /\ pcT = "off"
    /\ rifrullo = << >> /\ newedges = << >> /\ membaux = << >>
    /\ gauxmod = 0 /\ mshiplistaux = << >>

InitPipeline(t) ==
    /\ g \in Graphs
    /\ numiter \in 0..MaxIter
    /\ parallel \in BOOLEAN
    /\ cpu_count \in 1..MaxCpu
    /\ traced = t
    /\ paired = FALSE /\ draws = << >> /\ prev = NoPrev /\ calls = 1
    /\ IdlePipeline
    /\ IdleBody

Init == InitPipeline(FALSE)

\* the same start with the origin of every result-channel item recorded
InitTraced == InitPipeline(TRUE)

\* the first call in an interpreter on a one-CPU machine, with the draws of
\* every call recorded
InitPaired ==
    /\ g \in Graphs
    /\ numiter \in 0..MaxIter
    /\ parallel \in BOOLEAN
    /\ cpu_count = 1
    /\ traced = FALSE
    /\ paired = TRUE /\ draws = << >> /\ prev = NoPrev /\ calls = 1
    /\ IdlePipeline
    /\ IdleBody

\* ------------------------------------------------------ shuffled_comdet
\* lines 65-81: edge and node lists, the canonical detection, the shared
\* accumulator, the number of worker processes
NumProcs(par, cpus) == IF par THEN cpus - 1 ELSE 1

Main_Canonical ==
    /\ pcMain = "begin"
    /\ \E memb \in Memberships(g.n) :
          /\ loug' = memb
          /\ mod' = ModScaled(g.es, memb)
          /\ mod_res' = ModScaled(g.es, memb)
          /\ memship_res' = memb
    /\ edgelist' = g.es
    /\ nodelist' = Range(g.n)
    /\ numprocs' = NumProcs(parallel, cpu_count)
    /\ pcMain' = "spawn"
    /\ UNCHANGED << inputVars, returned, input_queue, output_queue, genVars,
                    workerVars, redVars, fed, emitted, outTags, bodyVars >>

\* lines 84-96: create and start the feeder, the reducer and the workers
\* one poison pill too few handed to the feeder
GenArgsStopShort(niter, nprocs) == [n |-> niter - 1, nprocs |-> nprocs - 1]

\* one poison pill too many handed to the feeder
GenArgsStopExtra(niter, nprocs) == [n |-> niter - 1, nprocs |-> nprocs + 1]

GenArgs(niter, nprocs) == [n |-> niter - 1, nprocs |-> nprocs]

Main_Start ==
    /\ pcMain = "spawn"
    /\ genArgs' = GenArgs(numiter, numprocs)
    /\ pcGen' = "tasks" /\ genI' = 0
    /\ pcRed' = "loop" /\ work' = 0
    /\ pcW' = [w \in Procs |-> IF w \in Workers THEN "get" ELSE "unborn"]
    /\ pcMain' = "joinIn"
    /\ UNCHANGED << inputVars, edgelist, nodelist, mod, loug, numprocs,
                    returned, accVars, input_queue, output_queue, inBuf,
                    wTok, wOrd, outBuf, bufTags, val, fed, emitted, outTags,
                    bodyVars >>

\* line 100: p_inqueue.join(); a process that has put on a queue ends only
\* when its feeder thread has emptied its buffer
Main_JoinIn ==
    /\ pcMain = "joinIn"
    /\ pcGen = "done" /\ inBuf = << >>
    /\ pcMain' = "joinWorkers"
    /\ UNCHANGED << inputVars, edgelist, nodelist, mod, loug, numprocs,
                    returned, accVars, input_queue, output_queue, genVars,
                    workerVars, redVars, fed, emitted, outTags, bodyVars >>

\* lines 102-103: join every worker; a worker that died is joined as well,
\* each once its buffer is empty
Main_JoinWorkers ==
    /\ pcMain = "joinWorkers"
    /\ \A w \in Workers : pcW[w] \in {"done", "dead"} /\ outBuf[w] = << >>
    /\ pcMain' = "joinOut"
    /\ UNCHANGED << inputVars, edgelist, nodelist, mod, loug, numprocs,
                    returned, accVars, input_queue, output_queue, genVars,
                    workerVars, redVars, fed, emitted, outTags, bodyVars >>

\* a return that reads the accumulator without joining the reducer
Main_ReturnNoJoin ==
    /\ pcMain = "joinOut"
    /\ returned' = memship_res
    /\ pcMain' = "done"
    /\ UNCHANGED << inputVars, edgelist, nodelist, mod, loug, numprocs,
                    accVars, input_queue, output_queue, genVars,
                    workerVars, redVars, fed, emitted, outTags, bodyVars >>

\* lines 105-108: p_outqueue.join(), then return memship_res[:]
Main_Return ==
    /\ pcMain = "joinOut"
    /\ pcRed = "done"
    /\ returned' = memship_res
    /\ pcMain' = "done"
    /\ UNCHANGED << inputVars, edgelist, nodelist, mod, loug, numprocs,
                    accVars, input_queue, output_queue, genVars,
                    workerVars, redVars, fed, emitted, outTags, bodyVars >>

\* line 50 again: a further call of shuffled_comdet in the same interpreter.
\* Every process of the previous call has been joined; the module-level
\* queues are the ones created at import and keep what the previous call
\* left on them. mp.cpu_count() is the machine's.
Main_Call ==
    /\ pcMain = "done"
    /\ Len(input_queue) <= MaxLeft
    /\ paired => (calls < MaxCalls /\ Len(input_queue) <= MaxPairLeft)
    /\ calls' = IF paired THEN calls + 1 ELSE calls
    /\ g' \in Graphs
    /\ numiter' \in 0..MaxIter
    /\ parallel' \in BOOLEAN
    /\ left' = input_queue
    /\ prev' = IF paired /\ ~parallel
                THEN [set |-> TRUE, g |-> g, numiter |-> numiter,
                      canon |-> loug, draws |-> draws,
                      mod |-> mod_res, memb |-> returned]
                ELSE prev
    /\ draws' = << >>
    /\ pcMain' = "begin"
    /\ edgelist' = << >> /\ nodelist' = << >>
    /\ mod' = 0 /\ loug' = << >>
    /\ mod_res' = 0 /\ memship_res' = << >>
    /\ numprocs' = 0 /\ returned' = << >>
    /\ pcGen' = "unborn" /\ genArgs' = [n |-> 0, nprocs |-> 0] /\ genI' = 0
    /\ inBuf' = << >>
    /\ pcW' = [w \in Procs |-> "unborn"]
    /\ wTok' = [w \in Procs |-> 0]
    /\ wOrd' = [w \in Procs |-> 0]
    /\ outBuf' = [w \in Procs |-> << >>]
    /\ bufTags' = [w \in Procs |-> << >>]
    /\ pcRed' = "unborn" /\ work' = 0 /\ val' = NoVal
    /\ fed' = << >> /\ emitted' = << >>
    /\ UNCHANGED << cpu_count, traced, paired, input_queue,
                    output_queue, outTags, bodyVars >>

\* ---------------------------------------------------------- add2inqueue
\* lines 120-121: for i in range(n): input_queue.put(i)
Gen_PutTask ==
    /\ pcGen = "tasks"
    /\ genI < Len(Range(genArgs.n))
    /\ inBuf' = QueuePut(inBuf, Task(At(Range(genArgs.n), genI)))
    /\ fed' = Append(fed, Task(At(Range(genArgs.n), genI)))
    /\ genI' = genI + 1
    /\ UNCHANGED << inputVars, mainVars, accVars, input_queue, output_queue,
                    pcGen, genArgs, workerVars, redVars, emitted, outTags,
                    bodyVars >>

Gen_TasksDone ==
    /\ pcGen = "tasks"
    /\ genI >= Len(Range(genArgs.n))
    /\ pcGen' = "stops" /\ genI' = 0
    /\ UNCHANGED << inputVars, mainVars, accVars, input_queue, output_queue,
                    genArgs, inBuf, workerVars, redVars, fed, emitted, outTags,
                    bodyVars >>

\* lines 123-124: for i in range(nprocs): input_queue.put('STOP')
Gen_PutStop ==
    /\ pcGen = "stops"
    /\ genI < Len(Range(genArgs.nprocs))
    /\ inBuf' = QueuePut(inBuf, STOP)
    /\ fed' = Append(fed, STOP)
    /\ genI' = genI + 1
    /\ UNCHANGED << inputVars, mainVars, accVars, input_queue, output_queue,
                    pcGen, genArgs, workerVars, redVars, emitted, outTags,
                    bodyVars >>

Gen_Exit ==
    /\ pcGen = "stops"
    /\ genI >= Len(Range(genArgs.nprocs))
    /\ pcGen' = "done"
    /\ UNCHANGED << inputVars, mainVars, accVars, input_queue, output_queue,
                    genArgs, genI, inBuf, workerVars, redVars, fed, emitted,
                    outTags, bodyVars >>

\* the feeder thread of the add2inqueue process
Gen_Feed ==
    /\ inBuf # << >>
    /\ input_queue' = QueueFeed(input_queue, inBuf)
    /\ inBuf' = Tail(inBuf)
    /\ UNCHANGED << inputVars, mainVars, accVars, output_queue, pcGen,
                    genArgs, genI, workerVars, redVars, fed, emitted, outTags,
                    bodyVars >>

\* -------------------------------------------------------- comdet_worker
\* ghost tags of the items put on the result channel: the worker that put
\* the item and, for a result, the number of trial tokens that were taken
\* off the task channel before the one it answers
NoTag == [by |-> 0, stop |-> FALSE, tok |-> 0]
Tag(w, tok) == IF traced THEN [by |-> w, stop |-> FALSE, tok |-> tok] ELSE NoTag
StopTag(w) == IF traced THEN [by |-> w, stop |-> TRUE, tok |-> 0] ELSE NoTag

\* ghost: the number of trial tokens taken off the task channel so far in
\* this call (each is held by a worker, was held by one that died, or has
\* been answered)
Taken ==
    IF traced
    THEN Len(emitted) + Cardinality({ v \in Procs : pcW[v] \in {"work", "dead"} })
    ELSE 0

\* line 137: one input_queue.get() of  iter(input_queue.get, "STOP")
W_Get(w) ==
    /\ pcW[w] = "get"
    /\ input_queue # << >>
    /\ LET item == QueueHead(input_queue) IN
          /\ input_queue' = Tail(input_queue)
          /\ IF item = STOP
             THEN /\ pcW' = [pcW EXCEPT ![w] = "stop"]
                  /\ UNCHANGED << wTok, wOrd >>
             ELSE /\ pcW' = [pcW EXCEPT ![w] = "work"]
                  /\ wTok' = [wTok EXCEPT ![w] = item.i]
                  /\ wOrd' = [wOrd EXCEPT ![w] = Taken]
    /\ UNCHANGED << inputVars, mainVars, accVars, output_queue, genVars,
                    outBuf, bufTags, redVars, fed, emitted, outTags, bodyVars >>

\* the value a worker puts for the shuffle rif and the engine's answer memb
\* (lines 142-154)
TrialResult(nlist, edlist, rif, memb) ==
    Result(ModScaled(get_new_edgelist(edlist, rif), memb),
           RecoverMembership(memb, rif))

\* ghost: the draws of the call with those of one more trial, the shuffle
\* of line 140 and the engine's answer of lines 145-150
Drawn(rif, memb) ==
    IF paired THEN Append(draws, [rif |-> rif, memb |-> memb]) ELSE draws

\* a worker that shuffles the node list it was given in place
W_TrialShufflesInPlace(w) ==
    /\ pcW[w] = "work"
    /\ \E rif \in Shuffles(Len(nodelist)) :
       \E memb \in Memberships(Len(nodelist)) :
          LET res == TrialResult(nodelist, edgelist, rif, memb) IN
             /\ draws' = Drawn(rif, memb)
             /\ outBuf' = [outBuf EXCEPT ![w] = QueuePut(outBuf[w], res)]
             /\ emitted' = Append(emitted, res)
             /\ nodelist' = rif
    /\ bufTags' = [bufTags EXCEPT ![w] = QueuePut(bufTags[w], Tag(w, wOrd[w]))]
    /\ pcW' = [pcW EXCEPT ![w] = "get"]
    /\ UNCHANGED << callVars, pcMain, edgelist, mod, loug, numprocs, returned,
                    accVars, input_queue, output_queue, genVars, wTok, wOrd,
                    redVars, fed, outTags, bodyVars >>

\* lines 138-154: shuffle, relabel, detect, map the membership back, put
W_Trial(w) ==
    /\ pcW[w] = "work"
    /\ \E rif \in Shuffles(Len(nodelist)) :
       \E memb \in Memberships(Len(nodelist)) :
          LET res == TrialResult(nodelist, edgelist, rif, memb) IN
             /\ draws' = Drawn(rif, memb)
             /\ outBuf' = [outBuf EXCEPT ![w] = QueuePut(outBuf[w], res)]
             /\ emitted' = Append(emitted, res)
    /\ bufTags' = [bufTags EXCEPT ![w] = QueuePut(bufTags[w], Tag(w, wOrd[w]))]
    /\ pcW' = [pcW EXCEPT ![w] = "get"]
    /\ UNCHANGED << callVars, mainVars, accVars, input_queue, output_queue,
                    genVars, wTok, wOrd, redVars, fed, outTags, bodyVars >>

\* a worker that still puts its "STOP" when the detection routine raises
W_CrashPutsStop(w) ==
    /\ pcW[w] = "work"
    /\ outBuf' = [outBuf EXCEPT ![w] = QueuePut(outBuf[w], STOP)]
    /\ bufTags' = [bufTags EXCEPT ![w] = QueuePut(bufTags[w], StopTag(w))]
    /\ pcW' = [pcW EXCEPT ![w] = "dead"]
    /\ UNCHANGED << inputVars, mainVars, accVars, input_queue, output_queue,
                    genVars, wTok, wOrd, redVars, fed, emitted, outTags,
                    bodyVars >>

\* lines 145-150: the detection routine raises; the process ends without
\* reaching line 156 (what it had put before is still fed to the pipe)
W_Crash(w) ==
    /\ pcW[w] = "work"
    /\ pcW' = [pcW EXCEPT ![w] = "dead"]
    /\ UNCHANGED << inputVars, mainVars, accVars, input_queue, output_queue,
                    genVars, wTok, wOrd, outBuf, bufTags, redVars, fed, emitted,
                    outTags, bodyVars >>

\* line 156: output_queue.put('STOP')
W_PutStop(w) ==
    /\ pcW[w] = "stop"
    /\ outBuf' = [outBuf EXCEPT ![w] = QueuePut(outBuf[w], STOP)]
    /\ bufTags' = [bufTags EXCEPT ![w] = QueuePut(bufTags[w], StopTag(w))]
    /\ pcW' = [pcW EXCEPT ![w] = "done"]
    /\ UNCHANGED << inputVars, mainVars, accVars, input_queue, output_queue,
                    genVars, wTok, wOrd, redVars, fed, emitted, outTags,
                    bodyVars >>

\* the feeder thread of worker w's process
W_Feed(w) ==
    /\ outBuf[w] # << >>
    /\ output_queue' = QueueFeed(output_queue, outBuf[w])
    /\ outTags' = QueueFeed(outTags, bufTags[w])
    /\ outBuf' = [outBuf EXCEPT ![w] = Tail(outBuf[w])]
    /\ bufTags' = [bufTags EXCEPT ![w] = Tail(bufTags[w])]
    /\ UNCHANGED << inputVars, mainVars, accVars, input_queue, genVars,
                    pcW, wTok, wOrd, redVars, fed, emitted, bodyVars >>

\* --------------------------------------------------------- outqueue2res
\* a comparison with the sign the wrong way round
BetterReversed(modaux, best) == modaux < best

\* a reducer that keeps whatever result it saw last
BetterLastSeen(modaux, best) == TRUE

\* a comparison that also lets a tie through
BetterOrEqual(modaux, best) == modaux >= best

\* line 188: if modaux > mod_res.value
Better(modaux, best) == modaux > best

\* an outer loop that ends at the first "STOP" instead of one per worker
LoopOverAfterFirstStop(wk, nprocs) == wk >= 1 \/ wk >= nprocs

\* line 184: for work in range(nprocs) has run out
LoopOver(wk, nprocs) == wk >= nprocs

\* lines 184-189: one output_queue.get(); a "STOP" ends the inner loop and
\* moves the outer loop to the next worker; a better result overwrites
\* mod_res.value (the membership is written by the next step)
Red_Get ==
    /\ pcRed = "loop"
    /\ ~LoopOver(work, numprocs)
    /\ output_queue # << >>
    /\ LET item == QueueHead(output_queue) IN
          /\ output_queue' = Tail(output_queue)
          /\ outTags' = Tail(outTags)
          /\ IF item = STOP
             THEN /\ work' = work + 1
                  /\ UNCHANGED << val, mod_res, pcRed >>
             ELSE /\ val' = item
                  /\ work' = work
                  /\ IF Better(item.mod, mod_res)
                     THEN mod_res' = item.mod /\ pcRed' = "setmem"
                     ELSE UNCHANGED << mod_res, pcRed >>
    /\ UNCHANGED << inputVars, mainVars, memship_res, input_queue, genVars,
                    workerVars, fed, emitted, bodyVars >>

\* lines 190-191: memship_res[:] = VertexClustering(g, val[1]).membership
Red_SetMem ==
    /\ pcRed = "setmem"
    /\ memship_res' = val.memb
    /\ pcRed' = "loop"
    /\ UNCHANGED << inputVars, mainVars, mod_res, input_queue, output_queue,
                    genVars, workerVars, work, val, fed, emitted, outTags, bodyVars >>

\* line 184: range(nprocs) is exhausted
Red_Exit ==
    /\ pcRed = "loop"
    /\ LoopOver(work, numprocs)
    /\ pcRed' = "done"
    /\ UNCHANGED << inputVars, mainVars, accVars, input_queue, output_queue,
                    genVars, workerVars, work, val, fed, emitted, outTags, bodyVars >>

\* ------------------------------------------------------------ the system
Next ==
    \/ Main_Canonical
    \/ Main_Start
    \/ Main_JoinIn
    \/ Main_JoinWorkers
    \/ Main_Return
    \/ Main_Call
    \/ Gen_PutTask
    \/ Gen_TasksDone
    \/ Gen_PutStop
    \/ Gen_Exit
    \/ Gen_Feed
    \/ \E w \in Procs : W_Get(w)
    \/ \E w \in Procs : W_Trial(w)
    \/ \E w \in Procs : W_Crash(w)
    \/ \E w \in Procs : W_PutStop(w)
    \/ \E w \in Procs : W_Feed(w)
    \/ Red_Get
    \/ Red_SetMem
    \/ Red_Exit

Spec == Init /\ [][Next]_vars

\* Every process that is started runs whenever it can take a step, its
\* feeder thread included; the failure of the detection routine and a
\* further call of shuffled_comdet are the only steps nothing forces.
MainStep ==
    Main_Canonical \/ Main_Start \/ Main_JoinIn \/ Main_JoinWorkers
    \/ Main_Return
GenStep == Gen_PutTask \/ Gen_TasksDone \/ Gen_PutStop \/ Gen_Exit \/ Gen_Feed
WorkerStep(w) == W_Get(w) \/ W_Trial(w) \/ W_PutStop(w) \/ W_Feed(w)
RedStep == Red_Get \/ Red_SetMem \/ Red_Exit

Fairness ==
    /\ WF_vars(MainStep)
    /\ WF_vars(GenStep)
    /\ \A w \in Procs : WF_vars(WorkerStep(w))
    /\ WF_vars(RedStep)

FairSpec == Init /\ [][Next]_vars /\ Fairness
SpecTraced == InitTraced /\ [][Next]_vars

\* the caller repeats the call on the same graph with the same numiter
SameCall == g' = g /\ numiter' = numiter

\* successive calls on one graph with one numiter, in either mode, on a
\* one-CPU machine
SpecPaired == InitPaired /\ [][Next /\ SameCall]_vars

\* ------------------------------------------ one loop body of the worker
\* comdet_worker(nlist, edlist) is entered with the lists of lines 65-66
InitBody ==
    /\ g \in RelabelGraphs
    /\ numiter = 0 /\ parallel = FALSE /\ cpu_count = 1
    /\ traced = FALSE
    /\ paired = FALSE /\ draws = << >> /\ prev = NoPrev /\ calls = 1
    /\ pcMain = "begin"
    /\ edgelist = g.es
    /\ nodelist = Range(g.n)
    /\ mod = 0 /\ loug = << >>
    /\ mod_res = 0 /\ memship_res = << >>
    /\ numprocs = 0 /\ returned = << >>
    /\ input_queue = << >> /\ output_queue = << >>
    /\ pcGen = "unborn" /\ genArgs = [n |-> 0, nprocs |-> 0] /\ genI = 0
    /\ inBuf = << >>
    /\ pcW = [w \in Procs |-> "unborn"]
    /\ wTok = [w \in Procs |-> 0]
    /\ wOrd = [w \in Procs |-> 0]
    /\ outBuf = [w \in Procs |-> << >>]
    /\ bufTags = [w \in Procs |-> << >>]
    /\ pcRed = "unborn" /\ work = 0 /\ val = NoVal
    /\ left = << >> /\ fed = << >> /\ emitted = << >> /\ outTags = << >>
    /\ pcT = "shuffle"
    /\ rifrullo = << >> /\ newedges = << >> /\ membaux = << >>
    /\ gauxmod = 0 /\ mshiplistaux = << >>

pipelineVars ==
    << inputVars, mainVars, accVars, input_queue, output_queue, genVars,
       workerVars, redVars, fed, emitted, outTags >>

\* lines 138-140: rifrullo = range(len(nlist)); random.shuffle(rifrullo)
T_Shuffle ==
    /\ pcT = "shuffle"
    /\ rifrullo' \in Shuffles(Len(nodelist))
    /\ pcT' = "relabel"
    /\ UNCHANGED << pipelineVars, newedges, membaux, gauxmod, mshiplistaux >>

\* line 142: newedges = get_new_edgelist(edlist, rifrullo)
T_Relabel ==
    /\ pcT = "relabel"
    /\ newedges' = get_new_edgelist(edgelist, rifrullo)
    /\ pcT' = "detect"
    /\ UNCHANGED << pipelineVars, rifrullo, membaux, gauxmod, mshiplistaux >>

\* lines 145-150: the engine's membership on the relabelled graph and its
\* modularity there
T_Detect ==
    /\ pcT = "detect"
    /\ \E memb \in Memberships(Len(nodelist)) :
          /\ membaux' = memb
          /\ gauxmod' = ModScaled(newedges, memb)
    /\ pcT' = "recover"
    /\ UNCHANGED << pipelineVars, rifrullo, newedges, mshiplistaux >>

\* line 151
T_Recover ==
    /\ pcT = "recover"
    /\ mshiplistaux' = RecoverMembership(membaux, rifrullo)
    /\ pcT' = "put"
    /\ UNCHANGED << pipelineVars, rifrullo, newedges, membaux, gauxmod >>

NextBody == T_Shuffle \/ T_Relabel \/ T_Detect \/ T_Recover

SpecBody == InitBody /\ [][NextBody]_vars

\* ------------------------------------------------------------ properties
SetMax(S) == CHOOSE x \in S : \A y \in S : y <= x

Canonical == Result(mod, loug)
EmittedResults == { emitted[k] : k \in 1..Len(emitted) }
EmittedMods == { emitted[k].mod : k \in 1..Len(emitted) }
AnyDead == \E w \in Workers : pcW[w] = "dead"
TasksOf(q) == { k \in 1..Len(q) : q[k].kind = "task" }
StopsOf(q) == { k \in 1..Len(q) : q[k] = STOP }

\* the task channel as the workers will see it: what is in the pipe, then
\* what the task generator has put and its feeder thread has yet to write
TaskChannel == input_queue \o inBuf

\* the best of a start value and a sequence of results taken in order, a
\* later result winning only when strictly better
RECURSIVE FoldBest(_, _)
FoldBest(acc, rs) ==
    IF rs = << >> THEN acc
    ELSE FoldBest(IF Head(rs).mod > acc.mod THEN Head(rs) ELSE acc, Tail(rs))

\* C1: when shuffled_comdet has returned from a run with at least one
\* worker in which no worker failed, the accumulator's modularity is the
\* maximum of the canonical modularity and the modularities of all results
\* the workers put, and the returned membership is that of a run (the
\* canonical one or a trial) with that modularity.
ThmC1 ==
    (pcMain = "done" /\ numprocs >= 1 /\ ~AnyDead) =>
        /\ mod_res = SetMax({mod} \cup EmittedMods)
        /\ returned = memship_res
        /\ \E run \in {Canonical} \cup EmittedResults :
              run.mod = mod_res /\ run.memb = returned

\* a failure-free run with two workers has returned, two results were put,
\* the first tying the canonical run with another membership and the second
\* beating both
WitC1 ==
    /\ pcMain = "done" /\ numprocs >= 2 /\ ~AnyDead
    /\ Len(emitted) = 2
    /\ emitted[1].mod = mod /\ emitted[1].memb # loug
    /\ emitted[2].mod > mod
    /\ returned = emitted[2].memb

\* C2 (as claimed): once the task generator has finished, it has put exactly
\* numiter trial tokens followed by exactly numprocs termination tokens.
CexC2 ==
    pcGen = "done" =>
        /\ Len(fed) = numiter + numprocs
        /\ \A k \in 1..Len(fed) :
              IF k <= numiter THEN fed[k].kind = "task" ELSE fed[k] = STOP

\* C3 (as claimed): in a call with numiter = 0 the task generator puts no
\* trial token, the reducer never replaces the accumulator, and the call
\* returns the canonical membership.
CexC3 ==
    (numiter = 0 /\ pcMain # "begin") =>
        /\ TasksOf(fed) = {}
        /\ mod_res = mod /\ memship_res = loug
        /\ pcMain = "done" => returned = loug

\* C4: after the canonical run the accumulator's modularity is at least the
\* canonical modularity in every state and no step of the call lowers it; so
\* the returned modularity is at least the canonical one.
ThmC4 ==
    /\ [](pcMain # "begin" => mod_res >= mod)
    /\ [][(pcMain # "begin" /\ pcMain' # "begin") => mod_res' >= mod_res]_vars

\* the call has returned with a modularity above the canonical one although
\* a result below the stored best was consumed as well
WitC4 ==
    /\ pcMain = "done" /\ mod_res > mod
    /\ \E k \in 1..Len(emitted) : emitted[k].mod < mod_res
    /\ output_queue = << >>

\* C5 (as claimed): the number of workers is max(1, cpu_count - 1) in
\* parallel mode and 1 in sequential mode, so at least one worker is started.
CexC5 ==
    pcMain \notin {"begin", "spawn"} =>
        /\ numprocs = (IF parallel
                         THEN (IF cpu_count - 1 > 1 THEN cpu_count - 1 ELSE 1)
                         ELSE 1)
        /\ Cardinality({ w \in Procs : pcW[w] # "unborn" }) = numprocs
        /\ numprocs >= 1

AllDone ==
    /\ pcGen = "done" /\ inBuf = << >>
    /\ \A w \in Workers : pcW[w] = "done" /\ outBuf[w] = << >>
    /\ pcRed = "done"
    /\ pcMain = "done"

\* C6: under fair scheduling, every call in which no worker fails eventually
\* has the task generator finished, every worker stopped after its
\* termination token, the reducer stopped and shuffled_comdet returned.
ThmC6 == (pcMain = "begin") ~> (AnyDead \/ AllDone)

\* a failure-free run with two workers and two trials has run to completion
WitC6 ==
    /\ AllDone /\ numprocs = 2 /\ Len(emitted) = 2
    /\ input_queue = << >> /\ output_queue = << >>

\* C7: while a worker has died without putting its termination token, the
\* reducer has seen fewer termination tokens than there are workers, never
\* finishes, and shuffled_comdet does not return.
ThmC7 ==
    AnyDead => (work < numprocs /\ pcRed # "done" /\ pcMain # "done")

\* one of two workers died; the other stopped, everything put was fed to
\* the pipe and consumed, and the main process waits in p_outqueue.join()
\* for a reducer that waits on the empty result channel
WitC7 ==
    /\ numprocs = 2 /\ AnyDead
    /\ \E w \in Workers : pcW[w] = "done"
    /\ pcMain = "joinOut" /\ pcRed = "loop"
    /\ output_queue = << >> /\ work = 1
    /\ \A w \in Workers : outBuf[w] = << >>

\* C8: the recovered membership has one entry per node, uses exactly the
\* community ids of the engine's membership, and puts two original nodes in
\* one community exactly when the engine put their relabelled vertices in
\* one community.
ThmC8 ==
    pcT = "put" =>
        LET N == Len(nodelist) IN
        /\ Len(mshiplistaux) = N
        /\ { mshiplistaux[k] : k \in 1..Len(mshiplistaux) }
              = { membaux[k] : k \in 1..Len(membaux) }
        /\ \A u, v \in 0..(N - 1) :
              (mshiplistaux[u + 1] = mshiplistaux[v + 1])
                 <=> (membaux[rifrullo[u + 1] + 1] = membaux[rifrullo[v + 1] + 1])

\* a four-node graph was relabelled by a shuffle that is not its own
\* inverse and the engine found two communities of two vertices
WitC8 ==
    /\ pcT = "put" /\ Len(nodelist) = 4
    /\ \E k \in 1..4 : rifrullo[rifrullo[k] + 1] # k - 1
    /\ Cardinality({ k \in 1..4 : membaux[k] = 0 }) = 2
    /\ Cardinality({ k \in 1..4 : membaux[k] = 1 }) = 2
    /\ mshiplistaux # membaux

\* C9: the modularity the worker computed on the relabelled graph is the
\* modularity of the recovered membership on the original graph.
ThmC9 ==
    pcT = "put" => gauxmod = ModScaled(edgelist, mshiplistaux)

\* the shuffle moved edges, the engine's membership has a different
\* modularity on the original graph, and the recovered one has the emitted
\* modularity
WitC9 ==
    /\ pcT = "put"
    /\ newedges # edgelist
    /\ ModScaled(edgelist, membaux) # gauxmod
    /\ ModScaled(edgelist, mshiplistaux) = gauxmod

\* the two sequences agree item by item as far as both reach
AgreeSoFar(a, b) ==
    \A k \in 1..Len(a) : k <= Len(b) => a[k] = b[k]

\* C10 (as claimed): a sequential call that has returned has returned the
\* modularity and the membership that the sequential call before it on the
\* same graph with the same numiter returned, when the detection routine
\* answered alike in both (the same canonical membership, the same answer
\* in every trial) and both met the same sequence of per-trial
\* permutations, trial by trial for the trials they ran.
CexC10 ==
    (/\ paired /\ pcMain = "done" /\ ~parallel
     /\ prev.set /\ prev.g = g /\ prev.numiter = numiter
     /\ prev.canon = loug
     /\ AgreeSoFar(draws, prev.draws)) =>
        /\ mod_res = prev.mod
        /\ returned = prev.memb

\* the workers in one of the given positions of comdet_worker
WorkersAt(pcs) == { w \in Workers : pcW[w] \in pcs }

\* C11 (as claimed): when a failure-free run with at least one worker has
\* returned, the workers have put exactly as many results as the task
\* generator of the run put trial tokens, and the reducer has taken
\* numprocs termination tokens.
CexC11 ==
    (pcMain = "done" /\ numprocs >= 1 /\ ~AnyDead) =>
        /\ Len(emitted) = Cardinality(TasksOf(fed))
        /\ work = numprocs

\* C12: the reducer is done only with numprocs termination tokens consumed,
\* and once it has consumed the last of them nothing is left on the result
\* channel or in a worker's buffer, every worker has stopped, no write of
\* the accumulator is pending and the accumulator is the best of the
\* canonical run and of every result any worker put.
ThmC12 ==
    pcRed # "unborn" =>
        /\ work <= numprocs
        /\ pcRed = "done" => work = numprocs
        /\ work = numprocs =>
              /\ pcRed \in {"loop", "done"}
              /\ output_queue = << >>
              /\ \A w \in Workers : pcW[w] = "done" /\ outBuf[w] = << >>
              /\ mod_res = SetMax({mod} \cup EmittedMods)
              /\ Result(mod_res, memship_res)
                    \in {Canonical} \cup EmittedResults

\* the reducer has just consumed the second of two termination tokens,
\* after two results of which the later one was the better
WitC12 ==
    /\ pcRed = "loop" /\ numprocs = 2 /\ work = 2
    /\ Len(emitted) = 2
    /\ emitted[2].mod > emitted[1].mod
    /\ memship_res = emitted[2].memb
    /\ pcMain = "joinIn"

\* C13: on the task channel no trial token ever stands behind a termination
\* token, and while some worker has received a termination token no trial
\* token is on the task channel and the task generator has put all of them.
ThmC13 ==
    /\ \A k \in 2..Len(TaskChannel) :
          TaskChannel[k - 1] = STOP => TaskChannel[k] = STOP
    /\ WorkersAt({"stop", "done"}) # {} =>
          /\ TasksOf(TaskChannel) = {}
          /\ pcGen \in {"stops", "done"}
          /\ Cardinality(TasksOf(fed)) = Len(Range(genArgs.n))

\* one worker has received its termination token while the other is still
\* working on the last of two trial tokens and the generator is still
\* putting termination tokens
WitC13 ==
    /\ numprocs = 2 /\ Cardinality(TasksOf(fed)) = 2
    /\ pcW[1] = "stop" /\ pcW[2] = "work" /\ wTok[2] = 1
    /\ pcGen = "stops"
    /\ TaskChannel = << >>

\* the tags of the items worker w has put and the reducer has not taken, in
\* the order the reducer will get them: those in the pipe, then those in the
\* worker's buffer
Stream(w) ==
    LET PutBy(t) == t.by = w IN SelectSeq(outTags, PutBy) \o bufTags[w]

\* C14: of two items one worker has on the way to the reducer the earlier
\* one is a result, never that worker's termination token, and when both are
\* results the earlier answers the token the worker consumed first; the
\* results on the way answer tokens consumed before the one the worker is
\* working on. Nothing relates the items of different workers.
ThmC14 ==
    /\ Len(outTags) = Len(output_queue)
    /\ \A k \in 1..Len(outTags) :
          outTags[k].stop <=> output_queue[k] = STOP
    /\ \A w \in Procs :
          /\ Len(bufTags[w]) = Len(outBuf[w])
          /\ \A j, k \in 1..Len(Stream(w)) :
                j < k =>
                   /\ ~Stream(w)[j].stop
                   /\ ~Stream(w)[k].stop => Stream(w)[j].tok < Stream(w)[k].tok
          /\ \A k \in 1..Len(Stream(w)) :
                /\ Stream(w)[k].by = w
                /\ pcW[w] = "work" => Stream(w)[k].tok < wOrd[w]
                /\ Stream(w)[k].stop => pcW[w] = "done"

\* the first worker's put of the result for the first token has returned and
\* the worker holds the second token, yet the reducer will first get the
\* termination token the second worker put later
WitC14 ==
    /\ pcW[1] = "work" /\ wOrd[1] = 1
    /\ bufTags[1] = << Tag(1, 0) >>
    /\ outTags = << StopTag(2) >>
    /\ pcRed = "loop" /\ work = 0

\* one worker's results for two tokens stand on the result channel in the
\* order it consumed them, followed by its termination token
WitC14Own ==
    /\ Len(outTags) = 3
    /\ outTags[1] = Tag(1, 0)
    /\ outTags[2] = Tag(1, 1)
    /\ outTags[3] = StopTag(1)

\* the reducer takes a result off the result channel whose modularity equals
\* the accumulator's
GetsTie ==
    /\ output_queue # << >>
    /\ output_queue' = Tail(output_queue)
    /\ QueueHead(output_queue) # STOP
    /\ QueueHead(output_queue).mod = mod_res

\* C15: a step in which the reducer receives a result whose modularity
\* equals the accumulator's writes nothing to the accumulator and goes back
\* to the head of its loop; while the accumulator holds the canonical
\* modularity it holds the canonical membership; and once the reducer of a
\* failure-free run with one worker has ended the accumulator is the first
\* of the canonical run and the results, in the order they were put, that
\* attains the maximum.
ThmC15 ==
    /\ [][GetsTie => (accVars' = accVars /\ pcRed' = "loop" /\ val' = QueueHead(output_queue))]_vars
    /\ []((pcMain # "begin" /\ mod_res = mod) => memship_res = loug)
    /\ []((pcRed = "done" /\ numprocs = 1 /\ ~AnyDead) =>
              Result(mod_res, memship_res) = FoldBest(Canonical, emitted))

\* the reducer has just received a trial's result that ties the canonical
\* modularity with another membership, and the accumulator still holds the
\* canonical membership
WitC15 ==
    /\ pcRed = "loop" /\ val \in EmittedResults
    /\ val.mod = mod /\ val.memb # loug
    /\ mod_res = mod /\ memship_res = loug

\* C16: between the creation of the accumulator and the return of the call
\* only steps of the reducer change it; the steps of the task generator and
\* of the workers, a worker's failure and the feeder threads included, leave
\* it unchanged, and no step of a worker changes the node list or the edge
\* list. A step of a worker process is told by a change of workerVars that
\* is not made by the main process: each of W_Get, W_Trial, W_Crash,
\* W_PutStop and W_Feed changes pcW or outBuf and leaves pcMain alone.
ThmC16 ==
    [][/\ (pcMain \notin {"begin", "done"} /\ accVars' # accVars) => RedStep
       /\ (genVars' # genVars /\ GenStep) => accVars' = accVars
       /\ (workerVars' # workerVars /\ pcMain' = pcMain) =>
             /\ accVars' = accVars
             /\ nodelist' = nodelist
             /\ edgelist' = edgelist]_vars

\* the workers have put two results, the reducer has taken the first, which
\* beat the canonical run, into the accumulator, and the node list and the
\* edge list are the ones the main process built
WitC16 ==
    /\ Len(emitted) = 2 /\ Len(output_queue) = 1
    /\ pcRed = "loop" /\ val = emitted[1]
    /\ mod_res > mod /\ Result(mod_res, memship_res) = emitted[1]
    /\ nodelist = Range(g.n) /\ edgelist = g.es

\* C17: when shuffled_comdet has returned from a run with at least one
\* worker in which no worker failed, the task channel and the result
\* channel are both empty, buffers included: every trial token and every
\* "STOP" that was on the task channel or was fed has been taken by a
\* worker, and every result and every "STOP" the workers put has been taken
\* by the reducer.
ThmC17 ==
    (pcMain = "done" /\ numprocs >= 1 /\ ~AnyDead) =>
        /\ input_queue = << >> /\ inBuf = << >>
        /\ output_queue = << >>
        /\ \A w \in Procs : outBuf[w] = << >>
        /\ outTags = << >>
        /\ Len(fed) = Len(Range(genArgs.n)) + numprocs
        /\ work = numprocs

\* a run with two workers and two trials has returned with both channels
\* empty
WitC17 ==
    /\ pcMain = "done" /\ ~AnyDead
    /\ numprocs = 2 /\ Len(emitted) = 2
    /\ Cardinality(StopsOf(fed)) = 2
    /\ input_queue = << >> /\ output_queue = << >>

\* a run with one worker that was entered with two trial tokens on the task
\* channel has returned with both channels empty
WitC17Left ==
    /\ pcMain = "done" /\ ~AnyDead
    /\ numprocs = 1 /\ Len(left) = 2 /\ Len(emitted) >= 2
    /\ input_queue = << >> /\ output_queue = << >>

\* the runs whose outcome is known: the canonical one and the trials
Runs == {Canonical} \cup EmittedResults

\* C18: between the reducer's two writes the accumulator holds the new
\* modularity with the old membership, a pair that belongs to no run and
\* whose membership does not have the stored modularity; at every other
\* moment after its creation it holds the pair of one run. The main process
\* passes the join of the task generator only when that has ended, the joins
\* of the workers only when each has ended, and returns only when the
\* reducer has ended, so what it returns is the membership of a run with
\* the stored modularity.
ThmC18 ==
    /\ pcRed = "setmem" =>
          /\ mod_res = val.mod
          /\ memship_res # val.memb
          /\ Result(mod_res, memship_res) \notin Runs
          /\ ModScaled(edgelist, memship_res) < mod_res
    /\ (pcMain # "begin" /\ pcRed # "setmem") =>
          Result(mod_res, memship_res) \in Runs
    /\ pcMain \in {"joinWorkers", "joinOut", "done"} =>
          pcGen = "done" /\ inBuf = << >>
    /\ pcMain \in {"joinOut", "done"} =>
          \A w \in Workers : pcW[w] \in {"done", "dead"} /\ outBuf[w] = << >>
    /\ pcMain = "done" =>
          /\ pcRed = "done"
          /\ returned = memship_res
          /\ Result(mod_res, returned) \in Runs
          /\ ModScaled(edgelist, returned) = mod_res

\* shuffled_comdet has returned the membership of a trial that beat the
\* canonical run, which the reducer stored in two writes
WitC18 ==
    /\ pcMain = "done"
    /\ mod_res > mod /\ returned # loug
    /\ Result(mod_res, returned) \in EmittedResults

\* the reducer stands between its two writes while the main process waits
\* for it
WitC18Between ==
    /\ pcRed = "setmem" /\ pcMain = "joinOut"
    /\ mod_res > mod /\ memship_res = loug

\* the memberships of the runs that attain the largest modularity
BestMemberships ==
    { r.memb : r \in { q \in Runs : q.mod = SetMax({mod} \cup EmittedMods) } }

\* C19: in parallel mode, whatever the interleaving of the workers, their
\* feeder threads and the reducer was, once the reducer has ended
\* failure-free the accumulator's modularity is the largest of the canonical
\* modularity and the modularities of the results the workers put, a value
\* the order of the results does not enter, and its membership is that of
\* one of the runs attaining it, so that it is determined as well unless
\* several runs with different memberships share the largest modularity;
\* shuffled_comdet returns that membership.
ThmC19 ==
    (parallel /\ pcRed = "done" /\ ~AnyDead) =>
        /\ mod_res = SetMax({mod} \cup EmittedMods)
        /\ memship_res \in BestMemberships
        /\ Cardinality(BestMemberships) = 1 =>
              BestMemberships = {memship_res}
        /\ pcMain = "done" => returned \in BestMemberships

\* a parallel run with two workers has returned; the better of the two
\* results was put first, the reducer received it last, and it is the one
\* stored
WitC19 ==
    /\ parallel /\ pcMain = "done" /\ ~AnyDead /\ numprocs = 2
    /\ Len(emitted) = 2
    /\ emitted[1].mod > emitted[2].mod /\ emitted[1].mod > mod
    /\ val = emitted[1]
    /\ Result(mod_res, returned) = emitted[1]

\* the same results put in the other order give the same accumulator
WitC19Swapped ==
    /\ parallel /\ pcMain = "done" /\ ~AnyDead /\ numprocs = 2
    /\ Len(emitted) = 2
    /\ emitted[2].mod > emitted[1].mod /\ emitted[2].mod > mod
    /\ Result(mod_res, returned) = emitted[2]

====
